---- MODULE Spec2Model ----
(***************************************************************************)
(* A state-machine model of the Polar query-evaluation bridge of           *)
(* languages/python/polar/api.py: the term codec (to_polar / to_python),   *)
(* the instance registry (id_to_instance), the call state table (calls),   *)
(* the class registry (CLASSES / CLASS_CONSTRUCTORS), the error mapping    *)
(* (_get_error) and the query loop (_do_query) with its callers            *)
(* (query, query_str, load_str, clear).                                    *)
(*                                                                         *)
(* The rule engine (the lib.polar calls) and the host program (objects,    *)
(* members, constructors) are the environment: what they answer is         *)
(* drawn nondeterministically from small sets.                             *)
(***************************************************************************)
EXTENDS Integers, Sequences, FiniteSets, TLC

(***************************************************************************)
(* Bounds of the model.                                                    *)
(***************************************************************************)
\* the largest handle the engine hands out before the model stops exploring
MaxId == 3
\* the largest object identity the host heap hands out
MaxObj == 2
\* the largest integer among the host's primitive values
MaxInt == 1

(***************************************************************************)
(* Host values.  A host value is a pair <<type, payload>>; the type is     *)
(* the name of the Python type, as type(v) gives it.                       *)
(***************************************************************************)
HInt(n) == <<"int", n>>
HBool(b) == <<"bool", b>>
HStr(s) == <<"str", s>>
\* a float is identified by the string of its literal
HFloat(x) == <<"float", x>>
HNone == <<"NoneType", "None">>
HList(s) == <<"list", s>>
\* a dict is a function from its keys to host values
HDict(f) == <<"dict", f>>
\* an opaque object: its class and its identity (id(v))
HObj(cls, oid) == <<"object", <<cls, oid>>>>
HPredicate(name, args) == <<"Predicate", <<name, args>>>>
HVariable(name) == <<"Variable", name>>
\* any iterable that is none of POLAR_TYPES: a generator, a tuple, a set
HIter(s) == <<"iterable", s>>

TypeOf(v) == v[1]
PayloadOf(v) == v[2]

POLAR_TYPES == {"int", "float", "bool", "str", "dict", "NoneType", "list"}

\* isinstance(v, collections.abc.Iterable)
IsIterable(v) == TypeOf(v) \in {"list", "dict", "str", "iterable"}

(***************************************************************************)
(* Terms: the value of the "value" key of a term is a one-key dict         *)
(* {tag: payload}, modelled as the pair <<tag, payload>>.  The "id" and    *)
(* "offset" keys are constant 0 and are left out.                          *)
(***************************************************************************)
TInteger(n) == <<"Integer", n>>
TBoolean(b) == <<"Boolean", b>>
TString(s) == <<"String", s>>
TFloat(x) == <<"Float", x>>
TList(s) == <<"List", s>>
TDictionary(f) == <<"Dictionary", f>>
TExternalInstance(id) == <<"ExternalInstance", id>>
TInstanceLiteral(cls, fields) == <<"InstanceLiteral", <<cls, fields>>>>
TCall(name, args) == <<"Call", <<name, args>>>>
TSymbol(name) == <<"Symbol", name>>

TagOf(t) == t[1]
ValueOf(t) == t[2]

\* the order in which a dict's keys are visited (its insertion order)
KeyOrder == <<"x", "y">>
KeysOf(f) == SelectSeq(KeyOrder, LAMBDA k : k \in DOMAIN f)

\* the empty dict
EmptyDict == [k \in {} |-> 0]

(***************************************************************************)
(* State.                                                                  *)
(***************************************************************************)
VARIABLES
    \* the engine behind self.polar: the next external id it will issue
    polar_next_id,
    \* self.id_to_instance: handle -> host value
    id_to_instance,
    \* self.calls: call_id -> the values its iterator has still to produce
    calls,
    \* the module-level CLASSES: class name -> host class
    CLASSES,
    \* the module-level CLASS_CONSTRUCTORS: class name -> from_polar
    CLASS_CONSTRUCTORS,
    \* the host heap: the identity the next constructed object gets
    next_oid,
    \* the native queries made so far, in order of creation
    queries,
    \* the query whose loop is executing (0: the caller has control)
    active,
    \* the load_str call in progress
    load,
    \* the number of events the engine has sent so far
    events,
    \* what the last operation or loop iteration did
    last,
    \* the codec's round trip under test: value, term, decoded value
    rt,
    \* the error mapping under test: the engine's payload, the exception
    raised,
    \* the Polar objects constructed so far: what self.classes and
    \* self.class_constructors of each refer to
    polars

vars == <<polar_next_id, id_to_instance, calls, CLASSES, CLASS_CONSTRUCTORS,
          next_oid, queries, active, load, events, last, rt, raised, polars>>

(***************************************************************************)
(* The part of the state one handler reads and writes while it runs,       *)
(* threaded through the calls it makes.  grants and ctors are the          *)
(* environment's answers during this handler: how many calls of            *)
(* lib.polar_get_external_id succeed before one returns 0, and how many    *)
(* constructor calls return before one raises.  exc is the exception       *)
(* raised so far ("" for none).                                            *)
(***************************************************************************)
NoExc == ""

Bridge(reg, nid, oid, grants, ctors) ==
    [id_to_instance |-> reg, next_id |-> nid, next_oid |-> oid,
     grants |-> grants, ctors |-> ctors, exc |-> NoExc]

Raise(h, e) == [h EXCEPT !.exc = e]

\* d[k] = v on a dict held as a function
SetItem(d, k, v) == [x \in DOMAIN d \cup {k} |-> IF x = k THEN v ELSE d[x]]

(***************************************************************************)
(* Polar._to_external_id: asks the engine for a fresh id and binds the     *)
(* object under it.  It looks nothing up.                                  *)
(***************************************************************************)
\* the same without line 261
_to_external_id_unbound(python_obj, h) ==
    IF h.grants = 0
    THEN [id |-> 0, h |-> Raise(h, "EngineError")]
    ELSE [id |-> h.next_id,
          h |-> [h EXCEPT !.next_id = @ + 1, !.grants = @ - 1]]

_to_external_id(python_obj, h) ==
    IF h.grants = 0
    THEN [id |-> 0, h |-> Raise(h, "EngineError")]
    ELSE [id |-> h.next_id,
          h |-> [h EXCEPT !.id_to_instance = SetItem(@, h.next_id, python_obj),
                          !.next_id = @ + 1,
                          !.grants = @ - 1]]

(***************************************************************************)
(* Polar._from_external_id: the assertion, then the lookup.                *)
(***************************************************************************)
_from_external_id(external_id, h) ==
    IF external_id \notin DOMAIN h.id_to_instance
    THEN [val |-> HNone, h |-> Raise(h, "AssertionError")]
    ELSE [val |-> h.id_to_instance[external_id], h |-> h]

(***************************************************************************)
(* Polar.to_polar.  The branches are tried in the order of the code.  A    *)
(* result is [term, h]; once h.exc is set the rest is skipped.             *)
(***************************************************************************)
RECURSIVE to_polar(_, _)
RECURSIVE to_polar_list(_, _)
RECURSIVE to_polar_items(_, _, _)

\* the term of the first element put before the terms of the others
ConsTerm(term, rest) == [terms |-> <<term>> \o rest.terms, h |-> rest.h]

\* the elements after the first, r being the first one's encoding
to_polar_tail(s, r) ==
    IF r.h.exc # NoExc THEN [terms |-> <<>>, h |-> r.h]
    ELSE ConsTerm(r.term, to_polar_list(Tail(s), r.h))

\* [self.to_polar(i) for i in v]
to_polar_list(s, h) ==
    IF Len(s) = 0 THEN [terms |-> <<>>, h |-> h]
    ELSE to_polar_tail(s, to_polar(Head(s), h))

\* the term of the first key added to the fields of the other keys
ConsField(k, term, rest) ==
    [fields |-> SetItem(rest.fields, k, term), h |-> rest.h]

\* the keys after the first, r being the first one's encoding
to_polar_rest(d, keys, r) ==
    IF r.h.exc # NoExc THEN [fields |-> EmptyDict, h |-> r.h]
    ELSE ConsField(Head(keys), r.term, to_polar_items(d, Tail(keys), r.h))

\* {k: self.to_polar(v) for k, v in v.items()}
to_polar_items(d, keys, h) ==
    IF Len(keys) = 0 THEN [fields |-> EmptyDict, h |-> h]
    ELSE to_polar_rest(d, keys, to_polar(d[Head(keys)], h))

\* val = {"List": [...]}
ListTerm(r) == [term |-> TList(r.terms), h |-> r.h]
\* val = {"Dictionary": {"fields": {...}}}
DictionaryTerm(r) == [term |-> TDictionary(r.fields), h |-> r.h]
\* val = {"Call": {"name": v.name, "args": [...]}}
CallTerm(name, r) == [term |-> TCall(name, r.terms), h |-> r.h]
\* val = {"ExternalInstance": {"instance_id": instance_id}}
ExternalInstanceTerm(r) == [term |-> TExternalInstance(r.id), h |-> r.h]

to_polar(v, h) ==
    IF TypeOf(v) = "bool" THEN [term |-> TBoolean(PayloadOf(v)), h |-> h]
    ELSE IF TypeOf(v) = "int" THEN [term |-> TInteger(PayloadOf(v)), h |-> h]
    ELSE IF TypeOf(v) = "str" THEN [term |-> TString(PayloadOf(v)), h |-> h]
    ELSE IF TypeOf(v) = "list" THEN ListTerm(to_polar_list(PayloadOf(v), h))
    ELSE IF TypeOf(v) = "dict"
    THEN DictionaryTerm(to_polar_items(PayloadOf(v), KeysOf(PayloadOf(v)), h))
    ELSE IF TypeOf(v) = "Predicate"
    THEN CallTerm(PayloadOf(v)[1], to_polar_list(PayloadOf(v)[2], h))
    ELSE IF TypeOf(v) = "Variable" THEN [term |-> TSymbol(PayloadOf(v)), h |-> h]
    ELSE ExternalInstanceTerm(_to_external_id(v, h))

(***************************************************************************)
(* Polar.to_python and Polar.make_external_instance, which call each       *)
(* other: an InstanceLiteral is decoded by constructing the instance.      *)
(* instance_id is <<>> for None and <<id>> for a given id.  A result is    *)
(* [val, h].                                                               *)
(***************************************************************************)
RECURSIVE to_python(_, _)
RECURSIVE to_python_list(_, _)
RECURSIVE to_python_items(_, _, _)
RECURSIVE make_external_instance(_, _, _, _)

ConsVal(val, rest) == [vals |-> <<val>> \o rest.vals, h |-> rest.h]

to_python_tail(s, r) ==
    IF r.h.exc # NoExc THEN [vals |-> <<>>, h |-> r.h]
    ELSE ConsVal(r.val, to_python_list(Tail(s), r.h))

\* [self.to_python(e) for e in value[tag]]
to_python_list(s, h) ==
    IF Len(s) = 0 THEN [vals |-> <<>>, h |-> h]
    ELSE to_python_tail(s, to_python(Head(s), h))

to_python_rest(d, keys, r) ==
    IF r.h.exc # NoExc THEN [fields |-> EmptyDict, h |-> r.h]
    ELSE ConsField(Head(keys), r.val, to_python_items(d, Tail(keys), r.h))

\* {k: self.to_python(v) for k, v in fields.items()}
to_python_items(d, keys, h) ==
    IF Len(keys) = 0 THEN [fields |-> EmptyDict, h |-> h]
    ELSE to_python_rest(d, keys, to_python(d[Head(keys)], h))

\* the value a JSON scalar under a scalar tag decodes to
ScalarOf(tag, payload) ==
    IF tag = "Integer" THEN HInt(payload)
    ELSE IF tag = "String" THEN HStr(payload)
    ELSE HBool(payload)

ListVal(r) == [val |-> HList(r.vals), h |-> r.h]
DictVal(r) == [val |-> HDict(r.fields), h |-> r.h]
\* Predicate(name=..., args=[...])
PredicateVal(name, r) == [val |-> HPredicate(name, r.vals), h |-> r.h]

to_python(v, h) ==
    IF TagOf(v) \in {"Integer", "String", "Boolean"}
    THEN [val |-> ScalarOf(TagOf(v), ValueOf(v)), h |-> h]
    ELSE IF TagOf(v) = "List" THEN ListVal(to_python_list(ValueOf(v), h))
    ELSE IF TagOf(v) = "Dictionary"
    THEN DictVal(to_python_items(ValueOf(v), KeysOf(ValueOf(v)), h))
    ELSE IF TagOf(v) = "ExternalInstance" THEN _from_external_id(ValueOf(v), h)
    ELSE IF TagOf(v) = "InstanceLiteral"
    THEN make_external_instance(ValueOf(v)[1], ValueOf(v)[2], <<>>, h)
    ELSE IF TagOf(v) = "Call"
    THEN PredicateVal(ValueOf(v)[1], to_python_list(ValueOf(v)[2], h))
    ELSE IF TagOf(v) = "Symbol"
    THEN [val |-> HNone, h |-> Raise(h, "PolarRuntimeException: unbound variable")]
    ELSE [val |-> HNone, h |-> Raise(h, "PolarRuntimeException: cannot convert")]

\* lines 358-359 without the test: an id is always allocated
given_or_new_id_always_new(instance_id, instance, h) ==
    _to_external_id(instance, h)

\* lines 358-359: an id is allocated only when none was given
given_or_new_id(instance_id, instance, h) ==
    IF instance_id = <<>>
    THEN _to_external_id(instance, h)
    ELSE [id |-> instance_id[1], h |-> h]

\* line 361: self.id_to_instance[instance_id] = instance
cache_instance(instance, got) ==
    IF got.h.exc # NoExc THEN [val |-> HNone, h |-> got.h]
    ELSE [val |-> instance,
          h |-> [got.h EXCEPT !.id_to_instance = SetItem(@, got.id, instance)]]

\* lines 340-363: the constructor returns a new object of the class
construct(cls, instance_id, h) ==
    cache_instance(HObj(cls, h.next_oid),
                   given_or_new_id(instance_id, HObj(cls, h.next_oid),
                                   [h EXCEPT !.next_oid = @ + 1,
                                             !.ctors = @ - 1]))

\* lines 333-355, f being the decoded fields
make_instance(class_name, instance_id, f) ==
    IF f.h.exc # NoExc THEN [val |-> HNone, h |-> f.h]
    ELSE IF class_name \notin DOMAIN CLASSES
    THEN [val |-> HNone,
          h |-> Raise(f.h, "PolarRuntimeException: class not registered")]
    ELSE IF class_name \notin DOMAIN CLASS_CONSTRUCTORS
    THEN [val |-> HNone, h |-> Raise(f.h, "AssertionError")]
    ELSE IF f.h.ctors = 0
    THEN [val |-> HNone,
          h |-> Raise(f.h, "PolarRuntimeException: error creating instance")]
    ELSE construct(CLASSES[class_name], instance_id, f.h)

make_external_instance(class_name, term_fields, instance_id, h) ==
    make_instance(class_name, instance_id,
                  to_python_items(term_fields, KeysOf(term_fields), h))

(***************************************************************************)
(* The state after construction and import: the two classes api.py         *)
(* registers at import, an empty registry, an empty call table, an engine  *)
(* that has issued no handle.                                              *)
(***************************************************************************)
FirstId == 1

\* lines 108-111: self.classes and self.class_constructors are bound to
\* the dicts the module globals name, not to copies of them
NewPolar == [classes |-> "CLASSES", class_constructors |-> "CLASS_CONSTRUCTORS"]

InitBridge ==
    /\ polars = <<NewPolar>>
    /\ polar_next_id = FirstId
    /\ id_to_instance = EmptyDict
    /\ calls = EmptyDict
    /\ CLASSES = [n \in {"Http", "PathMapper"} |-> n]
    /\ CLASS_CONSTRUCTORS = [n \in {"Http", "PathMapper"} |-> "None"]
    /\ next_oid = 1

IdleQueries ==
    /\ queries = <<>>
    /\ active = 0
    /\ load = "idle"
    /\ events = 0
    /\ last = [event |-> "init", q |-> 0]

IdleCodec == rt = [phase |-> "idle"]
IdleRaised == raised = [phase |-> "idle"]

\* the variables of the bridge proper, of the loop, and of the two harnesses
bridgeVars == <<polar_next_id, id_to_instance, calls, CLASSES,
                CLASS_CONSTRUCTORS, next_oid, polars>>
loopVars == <<queries, active, load, events, last>>

(***************************************************************************)
(* The codec on its own: a primitive host value is encoded, other objects  *)
(* may be encoded in between, and the term is decoded again, with no       *)
(* query boundary (clear_cache) in between.                                *)
(***************************************************************************)
Scalars ==
    {HInt(n) : n \in 0..MaxInt} \cup {HBool(b) : b \in BOOLEAN}
        \cup {HStr("a"), HStr(""), HFloat("1.5")}

ScalarLists ==
    {HList(<<>>)} \cup {HList(<<a>>) : a \in Scalars}
        \cup {HList(<<a, b>>) : a, b \in Scalars}

ScalarDicts ==
    {HDict(f) : f \in UNION {[ks -> Scalars] : ks \in SUBSET {"x", "y"}}}

\* one level of nesting
NestedLists == {HList(<<a, HList(<<b>>)>>) : a, b \in {HInt(1), HFloat("1.5")}}

RoundTripValues == Scalars \cup ScalarLists \cup ScalarDicts \cup NestedLists

\* host objects that exist before any query is made
HostObjects == {HObj("A", 0)}

InitCodec ==
    /\ InitBridge
    /\ IdleQueries
    /\ IdleRaised
    /\ \E v \in RoundTripValues : rt = [phase |-> "input", v |-> v]

\* the registry and the engine after an encode
Encoded(r) ==
    /\ r.h.next_id <= MaxId + 1
    /\ id_to_instance' = r.h.id_to_instance
    /\ polar_next_id' = r.h.next_id

\* the outcome of encoding the value under test
EncodedValue(r) ==
    IF r.h.exc # NoExc
    THEN [phase |-> "encode failed", v |-> rt.v, exc |-> r.h.exc]
    ELSE [phase |-> "encoded", v |-> rt.v, term |-> r.term]

\* term = self.to_polar(v)
CodecEncode(grants) ==
    /\ rt.phase = "input"
    /\ Encoded(to_polar(rt.v, Bridge(id_to_instance, polar_next_id, next_oid,
                                     grants, 0)))
    /\ rt' = EncodedValue(to_polar(rt.v, Bridge(id_to_instance, polar_next_id,
                                                next_oid, grants, 0)))
    /\ UNCHANGED <<calls, CLASSES, CLASS_CONSTRUCTORS, next_oid, loopVars, raised, polars>>

\* self.to_polar(o) of some other host object, before or after the encode
CodecEncodeOther(o) ==
    /\ rt.phase \in {"input", "encoded"}
    /\ Encoded(to_polar(o, Bridge(id_to_instance, polar_next_id, next_oid, 1, 0)))
    /\ UNCHANGED <<calls, CLASSES, CLASS_CONSTRUCTORS, next_oid, loopVars, rt,
                   raised, polars>>

\* the state after a decode
Decoded(r) ==
    /\ id_to_instance' = r.h.id_to_instance
    /\ rt' = [phase |-> "decoded", v |-> rt.v, term |-> rt.term,
              out |-> r.val, exc |-> r.h.exc]

\* out = self.to_python(term)
CodecDecode ==
    /\ rt.phase = "encoded"
    /\ Decoded(to_python(rt.term, Bridge(id_to_instance, polar_next_id,
                                         next_oid, 0, 0)))
    /\ UNCHANGED <<polar_next_id, calls, CLASSES, CLASS_CONSTRUCTORS, next_oid,
                   loopVars, raised, polars>>

NextCodec ==
    \/ \E grants \in 0..2 : CodecEncode(grants)
    \/ \E o \in HostObjects : CodecEncodeOther(o)
    \/ CodecDecode

SpecCodec == InitCodec /\ [][NextCodec]_vars

\* C6: a primitive value that was encoded and then decoded, with no query
\* boundary in between, decodes without error to a value equal to itself.
RoundTrip ==
    rt.phase = "decoded" => rt.exc = NoExc /\ rt.out = rt.v

\* a list holding a float and an integer has gone through encode and decode,
\* with another object encoded in between
RoundTripWitness ==
    /\ rt.phase = "decoded"
    /\ rt.v = HList(<<HFloat("1.5"), HInt(1)>>)
    /\ Cardinality(DOMAIN id_to_instance) = 2

(***************************************************************************)
(* Polar._get_error.  The engine's payload is a JSON object with one key,  *)
(* the outer tag; a JSON value is modelled as a pair <<sort, value>>.      *)
(***************************************************************************)
\* the largest source position of a parse error
MaxPos == 2

JStr(s) == <<"string", s>>
\* an object with the one key k
JObj(k, v) == <<"object", <<k, v>>>>
\* an object with several keys, as a record
JRec(r) == <<"record", r>>

\* [*error][0]: the first key of an object
FirstKey(error) == error[2][1]
\* error[kind], for the key the object has
Item(error, kind) == error[2][2]
\* data["token"], for the record held in a JSON value
Field(data, name) == data[2][name]

Exception(type, args) == [type |-> type, args |-> args]

\* lines 153-154: parse_err_kind = [*error][0] and
\* parse_err_data = error[kind] read the outer object again
ParseErrKind(error, kind) == FirstKey(error)
ParseErrData(error, kind) == Item(error, kind)

\* lines 156-180
ParseException(parse_err_kind, parse_err_data, data) ==
    IF parse_err_kind = "IntegerOverflow" THEN
        Exception("IntegerOverflow",
                  <<Field(parse_err_data, "token"), Field(parse_err_data, "pos")>>)
    ELSE IF parse_err_kind = "InvalidTokenCharacter" THEN
        Exception("InvalidTokenCharacter",
                  <<Field(parse_err_data, "token"), Field(parse_err_data, "c"),
                    Field(parse_err_data, "pos")>>)
    ELSE IF parse_err_kind = "InvalidToken" THEN
        Exception("InvalidToken", <<Field(parse_err_data, "pos")>>)
    ELSE IF parse_err_kind = "UnrecognizedEOF" THEN
        Exception("UnrecognizedEOF", <<Field(parse_err_data, "pos")>>)
    ELSE IF parse_err_kind = "UnrecognizedToken" THEN
        Exception("UnrecognizedToken",
                  <<Field(parse_err_data, "token"), Field(parse_err_data, "pos")>>)
    ELSE IF parse_err_kind = "ExtraToken" THEN
        Exception("ExtraToken",
                  <<Field(parse_err_data, "token"), Field(parse_err_data, "pos")>>)
    ELSE Exception("ParserException", <<data>>)

\* lines 149-190, kind and data being the outer key and its value
ExceptionOf(error, kind, data) ==
    IF kind = "Parse"
    THEN ParseException(ParseErrKind(error, kind), ParseErrData(error, kind), data)
    ELSE IF kind = "Runtime" THEN Exception("PolarRuntimeException", <<data>>)
    ELSE IF kind = "Operational" /\ data = JStr("Unknown")
    THEN Exception("Unknown", <<"Unknown Internal Error: See console.">>)
    ELSE Exception("Unknown", <<error>>)

_get_error(error) == ExceptionOf(error, FirstKey(error), Item(error, FirstKey(error)))

(***************************************************************************)
(* The payloads the engine may hand back after a failing call.             *)
(***************************************************************************)
Tokens == {"12345678901234567890", "@"}
Chars == {"\n", "\""}
Positions == 0..MaxPos

ParseKinds ==
    {"IntegerOverflow", "InvalidTokenCharacter", "InvalidToken",
     "UnrecognizedEOF", "UnrecognizedToken", "ExtraToken"}

ParsePayloads ==
    {JObj("Parse", JObj(k, JRec([token |-> t, pos |-> p]))) :
        k \in {"IntegerOverflow", "UnrecognizedToken", "ExtraToken"},
        t \in Tokens, p \in Positions}
    \cup {JObj("Parse", JObj("InvalidTokenCharacter",
                             JRec([token |-> t, c |-> c, pos |-> p]))) :
            t \in Tokens, c \in Chars, p \in Positions}
    \cup {JObj("Parse", JObj(k, JRec([pos |-> p]))) :
            k \in {"InvalidToken", "UnrecognizedEOF"}, p \in Positions}

OtherPayloads ==
    {JObj("Runtime", JObj("TypeError", JRec([msg |-> "not a number"]))),
     JObj("Runtime", JObj("UnboundVariable", JRec([sym |-> "x"]))),
     JObj("Operational", JStr("Unknown")),
     JObj("Operational", JStr("Unimplemented")),
     JObj("Parameter", JStr("bad argument"))}

ErrorPayloads == ParsePayloads \cup OtherPayloads

\* the calls into the engine after which the bridge calls _raise_error
BoundaryCalls ==
    {"polar_new_load", "polar_load", "polar_get_external_id", "polar_query",
     "polar_external_call_result", "polar_external_question_result",
     "polar_debug_command", "polar_new_query", "polar_new_query_from_term"}

InitRaised ==
    /\ InitBridge
    /\ IdleQueries
    /\ IdleCodec
    /\ raised = [phase |-> "idle"]

\* a boundary call fails; the engine holds the payload for polar_get_error
BoundaryCallFails(call, error) ==
    /\ raised.phase \in {"idle", "raised"}
    /\ raised' = [phase |-> "failed", call |-> call, error |-> error]
    /\ UNCHANGED <<bridgeVars, loopVars, rt>>

\* Polar._raise_error: e = self._get_error(); raise e
_raise_error ==
    /\ raised.phase = "failed"
    /\ raised' = [phase |-> "raised", call |-> raised.call,
                  error |-> raised.error,
                  exception |-> _get_error(raised.error)]
    /\ UNCHANGED <<bridgeVars, loopVars, rt>>

NextRaised ==
    \/ \E call \in BoundaryCalls, error \in ErrorPayloads :
          BoundaryCallFails(call, error)
    \/ _raise_error

SpecRaised == InitRaised /\ [][NextRaised]_vars

\* the inner kind and data of a Parse payload
InnerKind(error) == FirstKey(Item(error, "Parse"))
InnerData(error) == Item(Item(error, "Parse"), InnerKind(error))

\* the arguments the taxonomy gives the exception of a parse kind
TaxonomyArgs(k, d) ==
    IF k \in {"IntegerOverflow", "UnrecognizedToken", "ExtraToken"}
    THEN <<Field(d, "token"), Field(d, "pos")>>
    ELSE IF k = "InvalidTokenCharacter"
    THEN <<Field(d, "token"), Field(d, "c"), Field(d, "pos")>>
    ELSE <<Field(d, "pos")>>

\* C7: a failing boundary call whose payload is Parse/K, K one of the six
\* parse kinds, raises the exception K with that payload's token, character
\* and position; Runtime raises PolarRuntimeException; Operational and
\* unmapped payloads raise Unknown.
ErrorMapping ==
    raised.phase = "raised" =>
        IF FirstKey(raised.error) = "Parse"
        THEN /\ InnerKind(raised.error) \in ParseKinds
             /\ raised.exception =
                    Exception(InnerKind(raised.error),
                              TaxonomyArgs(InnerKind(raised.error),
                                           InnerData(raised.error)))
        ELSE IF FirstKey(raised.error) = "Runtime"
        THEN raised.exception.type = "PolarRuntimeException"
        ELSE raised.exception.type = "Unknown"

(***************************************************************************)
(* The query loop and its callers.                                         *)
(***************************************************************************)
\* the native queries one run makes (top-level and inline together)
MaxQueries == 2
\* the events, other than Done, the engine sends in one run
MaxEvents == 3
\* the largest call_id the engine uses
MaxCallId == 1

\* ffi.NULL as the result of an external call
NULL == <<"NULL", "">>

\* cls.__name__ of a host class.  Classes are written by their names;
\* "A.v2" is a second class object whose __name__ is also A
ClassName(cls) == IF cls = "A.v2" THEN "A" ELSE cls

\* lines 220-222 with the constructor stored only when one is given
RegisteredUnlessNone(reg, cls, from_polar) ==
    [classes |-> SetItem(reg.classes, ClassName(cls), cls),
     class_constructors |->
         IF from_polar = "None" THEN reg.class_constructors
         ELSE SetItem(reg.class_constructors, ClassName(cls), from_polar)]

\* lines 220-222: both dicts get an entry under cls.__name__
Registered(reg, cls, from_polar) ==
    [classes |-> SetItem(reg.classes, ClassName(cls), cls),
     class_constructors |->
         SetItem(reg.class_constructors, ClassName(cls), from_polar)]

\* a report pushed to the engine: the lib function, the call_id, the payload
Report(fn, call_id, payload) == [fn |-> fn, call_id |-> call_id, payload |-> payload]

\* one native query: who made it, the state of its loop, the handles the
\* engine holds for it, per call_id what the engine asked in it, the
\* results its consumer has kept so far (query: the list of line 562;
\* load_str: the success flag of line 249; query_str keeps none)
\* freed counts the calls of lib.query_free on the query's native handle
NewQuery(kind, st, handles) ==
    [kind |-> kind, st |-> st, handles |-> handles, ext |-> EmptyDict,
     results |-> <<>>, freed |-> 0]

\* Polar.clear_cache
clear_cache(reg) == EmptyDict

\* the handles a handler allocated: those from first_id on
Allocated(first_id, h) == first_id .. (h.next_id - 1)

(***************************************************************************)
(* Polar.register_python_class                                             *)
(***************************************************************************)
\* the two module-level dicts together
Registry == [classes |-> CLASSES, class_constructors |-> CLASS_CONSTRUCTORS]

register_python_class(cls, from_polar) ==
    /\ active = 0
    /\ load = "idle"
    /\ CLASSES' = Registered(Registry, cls, from_polar).classes
    /\ CLASS_CONSTRUCTORS' =
           Registered(Registry, cls, from_polar).class_constructors
    /\ last' = [event |-> "register_python_class", q |-> 0]
    /\ UNCHANGED <<polar_next_id, id_to_instance, calls, next_oid, queries,
                   active, load, events, rt, raised, polars>>

(***************************************************************************)
(* Polar.query: clears the registry, encodes the arguments, makes the      *)
(* native query and runs the loop on it.  self._kb_load() loads the files  *)
(* queued by Polar.load; no file is queued here.                           *)
(***************************************************************************)
QueryArgs ==
    {<<>>} \cup {<<o>> : o \in HostObjects} \cup {<<o, o>> : o \in HostObjects}

\* lines 545-560, r being the encoded arguments: an exception of the
\* encoding, or NULL from polar_new_query_from_term, ends the call
Queried(first_id, made, r) ==
    /\ r.h.next_id <= MaxId + 1
    /\ id_to_instance' = r.h.id_to_instance
    /\ polar_next_id' = r.h.next_id
    /\ queries' = Append(queries,
            IF r.h.exc # NoExc \/ ~made THEN NewQuery("query", "Failed", {})
            ELSE NewQuery("query", "Running", Allocated(first_id, r.h)))
    /\ active' = IF r.h.exc = NoExc /\ made THEN Len(queries) + 1 ELSE 0
    /\ last' = [event |-> "query", q |-> Len(queries) + 1,
                bound |-> Allocated(first_id, r.h),
                exc |-> IF r.h.exc # NoExc THEN r.h.exc
                        ELSE IF made THEN NoExc ELSE "EngineError"]

query(args, grants, made) ==
    /\ active = 0
    /\ load = "idle"
    /\ Len(queries) < MaxQueries
    /\ Queried(polar_next_id, made,
               to_polar_list(args, Bridge(clear_cache(id_to_instance),
                                          polar_next_id, next_oid, grants, 0)))
    /\ UNCHANGED <<calls, CLASSES, CLASS_CONSTRUCTORS, next_oid, load, events,
                   rt, raised, polars>>

(***************************************************************************)
(* Polar.query_str is a generator function: the call makes the generator   *)
(* and runs nothing; the first next() runs clear_cache and makes the       *)
(* native query; every next() runs the loop up to the next Result.         *)
(***************************************************************************)
query_str ==
    /\ active = 0
    /\ load = "idle"
    /\ Len(queries) < MaxQueries
    /\ queries' = Append(queries, NewQuery("query_str", "Created", {}))
    /\ last' = [event |-> "query_str", q |-> Len(queries) + 1]
    /\ UNCHANGED <<polar_next_id, id_to_instance, calls, CLASSES,
                   CLASS_CONSTRUCTORS, next_oid, active, load, events, rt, raised, polars>>

\* the first next() on the generator of query q
start_query_str(q, made) ==
    /\ active = 0
    /\ load = "idle"
    /\ queries[q].kind = "query_str"
    /\ queries[q].st = "Created"
    /\ id_to_instance' = clear_cache(id_to_instance)
    /\ queries' = IF made
                  THEN [queries EXCEPT ![q].st = "Running"]
                  ELSE [queries EXCEPT ![q].st = "Failed"]
    /\ active' = IF made THEN q ELSE 0
    /\ last' = [event |-> "start_query_str", q |-> q, bound |-> {},
                exc |-> IF made THEN NoExc ELSE "EngineError"]
    /\ UNCHANGED <<polar_next_id, calls, CLASSES, CLASS_CONSTRUCTORS, next_oid,
                   load, events, rt, raised, polars>>

\* a later next() on the generator of query q, suspended at its yield
resume_query_str(q) ==
    /\ active = 0
    /\ load = "idle"
    /\ queries[q].kind = "query_str"
    /\ queries[q].st = "Running"
    /\ active' = q
    /\ last' = [event |-> "resume_query_str", q |-> q]
    /\ UNCHANGED <<polar_next_id, id_to_instance, calls, CLASSES,
                   CLASS_CONSTRUCTORS, next_oid, queries, load, events, rt,
                   raised, polars>>

(***************************************************************************)
(* Polar.load_str: polar_new_load, then polar_load until it hands back no  *)
(* inline query; each inline query is run by the loop and drained.         *)
(***************************************************************************)
\* load = lib.polar_new_load(...): NULL raises
load_str(loaded) ==
    /\ active = 0
    /\ load = "idle"
    /\ load' = IF loaded THEN "loading" ELSE "idle"
    /\ last' = [event |-> "load_str", q |-> 0, bound |-> {},
                exc |-> IF loaded THEN NoExc ELSE "EngineError"]
    /\ UNCHANGED <<polar_next_id, id_to_instance, calls, CLASSES,
                   CLASS_CONSTRUCTORS, next_oid, queries, active, events, rt,
                   raised, polars>>

\* loaded = lib.polar_load(self.polar, load, query): "fail" is loaded == 0,
\* "done" is query == NULL, "query" is an inline query to run
polar_load(answer) ==
    /\ active = 0
    /\ load = "loading"
    /\ answer = "query" => Len(queries) < MaxQueries
    /\ load' = IF answer = "query" THEN "inline" ELSE "idle"
    /\ queries' = IF answer = "query"
                  THEN Append(queries, NewQuery("inline", "Running", {}))
                  ELSE queries
    /\ active' = IF answer = "query" THEN Len(queries) + 1 ELSE 0
    /\ last' = [event |-> "polar_load", q |-> 0,
                exc |-> IF answer = "fail" THEN "EngineError" ELSE NoExc]
    /\ UNCHANGED <<polar_next_id, id_to_instance, calls, CLASSES,
                   CLASS_CONSTRUCTORS, next_oid, events, rt, raised, polars>>

(***************************************************************************)
(* Polar.clear: frees the engine and makes a new one, whose handle         *)
(* numbering starts again.  A native query of the freed engine must not    *)
(* be used again, so no generator is suspended in its loop here.           *)
(***************************************************************************)
clear ==
    /\ active = 0
    /\ load = "idle"
    /\ \A q \in DOMAIN queries : queries[q].st # "Running"
    /\ polar_next_id' = FirstId
    /\ last' = [event |-> "clear", q |-> 0]
    /\ UNCHANGED <<id_to_instance, calls, CLASSES, CLASS_CONSTRUCTORS, next_oid,
                   queries, active, load, events, rt, raised, polars>>

(***************************************************************************)
(* Polar._do_query: one iteration of the loop per event of the engine.     *)
(* A handler is computed as an outcome: the bridge after it, the call      *)
(* table after it, the query's record, the exception it raised, whether    *)
(* it yielded a result, and what it did (last).                            *)
(***************************************************************************)
\* the loop of query q is at lib.polar_query
AtEvent(q) ==
    /\ q \in DOMAIN queries
    /\ active = q
    /\ queries[q].st = "Running"

\* the engine has events left to send in this run
MoreEvents == events < MaxEvents

Outcome(h, cs, rec, exc, yielded, did) ==
    [h |-> h, calls |-> cs, rec |-> rec, exc |-> exc, yielded |-> yielded,
     last |-> did]

\* what a loop iteration did: the event, the query, the exception raised,
\* the reports pushed to the engine, whether the engine accepted them,
\* whether a result was yielded, and the event's own data
Did(event, q, exc, reported, accepted, yielded, data) ==
    [event |-> event, q |-> q, exc |-> exc, reported |-> reported,
     accepted |-> accepted, yielded |-> yielded, data |-> data]

\* CleanupQuery.__exit__ has run: the query is freed, its state is gone
Finished(rec, st) ==
    [rec EXCEPT !.st = st, !.handles = {}, !.ext = EmptyDict,
              !.results = <<>>]

\* lines 251-254 without the test of success
AfterInlineUnchecked(rec, exc) ==
    IF exc = NoExc THEN "loading" ELSE "idle"

\* lines 251-254: load_str after its inline query has ended
AfterInline(rec, exc) ==
    IF exc = NoExc /\ rec.results # <<>> THEN "loading" ELSE "idle"

\* line 254: what load_str raises when its inline query has ended with Done
InlineExc(rec) ==
    IF rec.kind = "inline" /\ rec.results = <<>>
    THEN "PolarRuntimeException: inline query failed"
    ELSE NoExc

\* QueryResult(results), lines 38-43
QueryResult(results) == [results |-> results, success |-> Len(results) > 0]

\* what the caller of the loop has when the loop has ended with Done:
\* query returns QueryResult(results), load_str raises or goes on
Returned(rec) ==
    [returned |-> IF rec.kind = "query" THEN QueryResult(rec.results)
                  ELSE QueryResult(<<>>),
     raised |-> InlineExc(rec)]

\* the loop of query q ends, by break or by an exception
\* lines 98-99: CleanupQuery.__exit__ frees the native query
CleanupQuery__exit__(rec) == [rec EXCEPT !.freed = @ + 1]

\* the loop with the query freed after the while statement rather than by
\* the with statement around it
EndLoopFreeAfter(q, rec, st, exc) ==
    /\ queries' = [queries EXCEPT ![q] =
                      IF exc = NoExc THEN Finished(CleanupQuery__exit__(rec), st)
                      ELSE Finished(rec, st)]
    /\ active' = 0
    /\ load' = IF rec.kind = "inline" THEN AfterInline(rec, exc) ELSE load

\* line 367: the loop leaves the with statement, by break at Done or by an
\* exception
EndLoop(q, rec, st, exc) ==
    /\ queries' = [queries EXCEPT ![q] = Finished(CleanupQuery__exit__(rec), st)]
    /\ active' = 0
    /\ load' = IF rec.kind = "inline" THEN AfterInline(rec, exc) ELSE load

\* the loop of query q goes round again; a yield of query_str hands
\* control to the caller, query and load_str take the result and go on
Continue(q, rec, yielded) ==
    /\ queries' = [queries EXCEPT ![q] = rec]
    /\ active' = IF yielded /\ rec.kind = "query_str" THEN 0 ELSE q
    /\ load' = load

\* one loop iteration of query q with outcome o
Handled(q, o) ==
    /\ o.h.next_id <= MaxId + 1
    /\ o.h.next_oid <= MaxObj + 1
    /\ polar_next_id' = o.h.next_id
    /\ id_to_instance' = o.h.id_to_instance
    /\ next_oid' = o.h.next_oid
    /\ calls' = o.calls
    /\ events' = events + 1
    /\ last' = o.last
    /\ IF o.exc # NoExc THEN EndLoop(q, o.rec, "Failed", o.exc)
       ELSE Continue(q, o.rec, o.yielded)
    /\ UNCHANGED <<CLASSES, CLASS_CONSTRUCTORS, rt, raised, polars>>

\* lines 370-371: lib.polar_query returns NULL
EventNull(q) ==
    /\ AtEvent(q)
    /\ EndLoop(q, queries[q], "Failed", "EngineError")
    /\ last' = Did("NULL", q, "EngineError", <<>>, TRUE, FALSE, <<>>)
    /\ UNCHANGED <<polar_next_id, id_to_instance, calls, CLASSES,
                   CLASS_CONSTRUCTORS, next_oid, events, rt, raised, polars>>

\* lines 375-376: the break on "Done"
OnDone == "Done"

EventDone(q) ==
    /\ AtEvent(q)
    /\ EndLoop(q, queries[q], OnDone, NoExc)
    /\ last' = Did("Done", q, NoExc, <<>>, TRUE, FALSE, Returned(queries[q]))
    /\ UNCHANGED <<polar_next_id, id_to_instance, calls, CLASSES,
                   CLASS_CONSTRUCTORS, next_oid, events, rt, raised, polars>>

\* "if result == 0: self._raise_error()" after a report to the engine
AfterReportUnchecked(accepted) == NoExc

AfterReport(accepted) == IF accepted THEN NoExc ELSE "EngineError"

\* the handles of query q after a handler that allocated from first_id on
WithHandles(rec, first_id, h) ==
    IF h.exc # NoExc THEN rec
    ELSE [rec EXCEPT !.handles = @ \cup Allocated(first_id, h)]

(***************************************************************************)
(* MakeExternal, lines 381-390.  The engine numbers the instance itself,   *)
(* from the counter polar_get_external_id draws on.                        *)
(***************************************************************************)
MakeFields ==
    { EmptyDict,
      [k \in {"x"} |-> TInteger(1)],
      [k \in {"x"} |-> TInstanceLiteral("Http", EmptyDict)],
      [k \in {"x"} |-> TSymbol("y")] }

\* the instance literals among the fields, each constructed in its turn
Literals(fields) == {k \in DOMAIN fields : TagOf(fields[k]) = "InstanceLiteral"}

\* r is what make_external_instance returned, h0 the bridge before it
MadeExternal(q, instance_id, class_tag, fields, h0, r) ==
    Outcome(r.h, calls,
            WithHandles([queries[q] EXCEPT !.handles = @ \cup {instance_id}],
                        h0.next_id, r.h),
            r.h.exc, FALSE,
            Did("MakeExternal", q, r.h.exc, <<>>, TRUE, FALSE,
                [instance_id |-> instance_id, class_tag |-> class_tag,
                 fields |-> fields, instance |-> r.val,
                 issued |-> r.h.next_id - h0.next_id,
                 fresh |-> instance_id \notin DOMAIN h0.id_to_instance]))

make_external(q, instance_id, class_tag, fields, h) ==
    IF instance_id \in DOMAIN h.id_to_instance
    THEN MadeExternal(q, instance_id, class_tag, fields, h,
                      [val |-> HNone, h |-> Raise(h, "AssertionError")])
    ELSE MadeExternal(q, instance_id, class_tag, fields, h,
                      make_external_instance(class_tag, fields,
                                             <<instance_id>>, h))

EventMakeExternal(q, class_tag, fields, ctors, grants) ==
    /\ AtEvent(q)
    /\ MoreEvents
    /\ polar_next_id <= MaxId
    /\ Handled(q, make_external(q, polar_next_id, class_tag, fields,
                                Bridge(id_to_instance, polar_next_id + 1,
                                       next_oid, grants, ctors)))

(***************************************************************************)
(* ExternalCall, lines 392-451.  A member of the instance is <<"absent">>  *)
(* (getattr raises AttributeError), <<"raises">> (calling it raises) or    *)
(* <<"returns", result>>.  calls[call_id] is the rest of the generator.    *)
(***************************************************************************)
\* lines 424-431: the generator made of the result
normalise(result) ==
    IF TypeOf(result) \in POLAR_TYPES \/ ~IsIterable(result) THEN <<result>>
    ELSE IF result = HNone THEN <<>>
    ELSE PayloadOf(result)

MemberResults ==
    {HNone, HInt(1), HIter(<<HInt(0), HInt(1)>>)} \cup HostObjects

Members ==
    {<<"absent">>, <<"raises">>} \cup {<<"returns", r>> : r \in MemberResults}

\* the arguments of a call: none, or one the decoder rejects
CallArgs == {<<>>, <<TSymbol("y")>>}

\* lines 397-433, a being the decoded arguments
new_call(call_id, instance_id, member, a, cs) ==
    IF a.h.exc # NoExc THEN [out |-> "error", h |-> a.h, calls |-> cs]
    ELSE IF instance_id \notin DOMAIN a.h.id_to_instance
    THEN [out |-> "error", h |-> Raise(a.h, "KeyError"), calls |-> cs]
    ELSE IF member[1] = "absent"
    THEN [out |-> "absent", h |-> a.h, calls |-> cs]
    ELSE IF member[1] = "raises"
    THEN [out |-> "error", h |-> Raise(a.h, "HostError"), calls |-> cs]
    ELSE [out |-> "created", h |-> a.h,
          calls |-> SetItem(cs, call_id, normalise(member[2]))]

\* lines 438-443: the value pulled is encoded and reported, r its encoding
encoded_next(call_id, cs, r) ==
    [out |-> "pulled", payload |-> r.term, h |-> r.h,
     calls |-> [cs EXCEPT ![call_id] = Tail(@)],
     reported |-> r.h.exc = NoExc]

\* lines 436-451: next() on the generator; StopIteration reports NULL
next_result(call_id, h, cs) ==
    IF Len(cs[call_id]) = 0
    THEN [out |-> "pulled", payload |-> NULL, h |-> h, calls |-> cs,
          reported |-> TRUE]
    ELSE encoded_next(call_id, cs, to_polar(Head(cs[call_id]), h))

\* the first event of a call_id: the absent member reports NULL and goes
\* round (lines 405-411), an exception leaves the loop, else the pull
\* lines 402-412 with the absent member skipped without a report
first_pull_unreported(call_id, n) ==
    IF n.out = "created" THEN next_result(call_id, n.h, n.calls)
    ELSE [out |-> n.out, payload |-> NULL, h |-> n.h, calls |-> n.calls,
          reported |-> FALSE]

first_pull(call_id, n) ==
    IF n.out = "created" THEN next_result(call_id, n.h, n.calls)
    ELSE [out |-> n.out, payload |-> NULL, h |-> n.h, calls |-> n.calls,
          reported |-> n.out = "absent"]

\* the events of call_id the query has had so far
Pulls(rec, call_id) ==
    IF call_id \in DOMAIN rec.ext THEN rec.ext[call_id].pulls ELSE 0

SeenCall(rec, call_id, instance_id, member, args) ==
    [rec EXCEPT !.ext = SetItem(@, call_id,
                                [instance_id |-> instance_id,
                                 member |-> member, args |-> args,
                                 pulls |-> Pulls(rec, call_id) + 1])]

\* the exception of the iteration: the handler's own, or the report's
CallExc(x, accepted) ==
    IF x.h.exc # NoExc THEN x.h.exc
    ELSE IF x.reported THEN AfterReport(accepted)
    ELSE NoExc

\* x is what the handler did; lookup tells whether it took the first-use
\* branch of line 395
Called(q, call_id, instance_id, member, args, accepted, h0, lookup, x) ==
    Outcome(x.h, x.calls,
            WithHandles(SeenCall(queries[q], call_id, instance_id, member, args),
                        h0.next_id, x.h),
            CallExc(x, accepted), FALSE,
            Did("ExternalCall", q, CallExc(x, accepted),
                IF x.reported
                THEN <<Report("polar_external_call_result", call_id, x.payload)>>
                ELSE <<>>,
                accepted, FALSE,
                [call_id |-> call_id, instance_id |-> instance_id,
                 member |-> member, args |-> args, lookup |-> lookup,
                 out |-> x.out, pulls |-> Pulls(queries[q], call_id),
                 resolved |-> instance_id \in DOMAIN h0.id_to_instance,
                 issued |-> x.h.next_id - h0.next_id]))

external_call(q, call_id, instance_id, member, args, accepted, h) ==
    IF call_id \notin DOMAIN calls
    THEN Called(q, call_id, instance_id, member, args, accepted, h, TRUE,
                first_pull(call_id,
                           new_call(call_id, instance_id, member,
                                    to_python_list(args, h), calls)))
    ELSE Called(q, call_id, instance_id, member, args, accepted, h, FALSE,
                next_result(call_id, h, calls))

CallIds == 1..MaxCallId

\* the first event of a call_id in query q
EventExternalCall(q, call_id, instance_id, member, args, grants, ctors, accepted) ==
    /\ AtEvent(q)
    /\ MoreEvents
    /\ call_id \notin DOMAIN queries[q].ext
    /\ Handled(q, external_call(q, call_id, instance_id, member, args, accepted,
                                Bridge(id_to_instance, polar_next_id, next_oid,
                                       grants, ctors)))

\* a later event of a call_id in query q: the engine sends the same data
EventExternalCallAgain(q, call_id, grants, accepted) ==
    /\ AtEvent(q)
    /\ MoreEvents
    /\ call_id \in DOMAIN queries[q].ext
    /\ Handled(q, external_call(q, call_id, queries[q].ext[call_id].instance_id,
                                queries[q].ext[call_id].member,
                                queries[q].ext[call_id].args, accepted,
                                Bridge(id_to_instance, polar_next_id, next_oid,
                                       grants, 0)))

(***************************************************************************)
(* ExternalIsa, ExternalIsSubSpecializer, ExternalUnify: lines 453-509.    *)
(***************************************************************************)
\* cls.__mro__ of the host classes: B is a subclass of A, C one of B
Mro(cls) ==
    IF cls = "C" THEN <<"C", "B", "A", "object">>
    ELSE IF cls = "B" THEN <<"B", "A", "object">>
    ELSE <<cls, "object">>

\* instance.__class__
ClassOf(instance) ==
    IF TypeOf(instance) = "object" THEN PayloadOf(instance)[1]
    ELSE TypeOf(instance)

InSeq(x, s) == \E i \in DOMAIN s : s[i] = x

\* isinstance(instance, cls)
IsInstance(instance, cls) == InSeq(cls, Mro(ClassOf(instance)))

\* mro.index(cls), for cls in mro
Index(mro, cls) == CHOOSE i \in DOMAIN mro : mro[i] = cls /\ \A j \in 1..(i - 1) : mro[j] # cls

\* lines 459-463 with type(instance) is cls for isinstance
isa_exact(instance, class_name) ==
    /\ class_name \in DOMAIN CLASSES
    /\ ClassOf(instance) = CLASSES[class_name]

\* lines 459-463
isa(instance, class_name) ==
    /\ class_name \in DOMAIN CLASSES
    /\ IsInstance(instance, CLASSES[class_name])

\* lines 477-486 with <= for < in the comparison of line 482
is_sub_specializer_or_equal(instance, left_class_tag, right_class_tag) ==
    /\ left_class_tag \in DOMAIN CLASSES
    /\ right_class_tag \in DOMAIN CLASSES
    /\ InSeq(CLASSES[left_class_tag], Mro(ClassOf(instance)))
    /\ InSeq(CLASSES[right_class_tag], Mro(ClassOf(instance)))
    /\ Index(Mro(ClassOf(instance)), CLASSES[left_class_tag])
         <= Index(Mro(ClassOf(instance)), CLASSES[right_class_tag])

\* lines 477-486: KeyError and ValueError both give False
is_sub_specializer(instance, left_class_tag, right_class_tag) ==
    /\ left_class_tag \in DOMAIN CLASSES
    /\ right_class_tag \in DOMAIN CLASSES
    /\ InSeq(CLASSES[left_class_tag], Mro(ClassOf(instance)))
    /\ InSeq(CLASSES[right_class_tag], Mro(ClassOf(instance)))
    /\ Index(Mro(ClassOf(instance)), CLASSES[left_class_tag])
         < Index(Mro(ClassOf(instance)), CLASSES[right_class_tag])

\* the handler of a question: the instances are looked up (KeyError when
\* one is not bound), the answer is reported
Question(q, event, call_id, ids, answer, accepted, data) ==
    IF \E id \in ids : id \notin DOMAIN id_to_instance
    THEN Outcome(Bridge(id_to_instance, polar_next_id, next_oid, 0, 0), calls,
                 queries[q], "KeyError", FALSE,
                 Did(event, q, "KeyError", <<>>, accepted, FALSE, data))
    ELSE Outcome(Bridge(id_to_instance, polar_next_id, next_oid, 0, 0), calls,
                 queries[q], AfterReport(accepted), FALSE,
                 Did(event, q, AfterReport(accepted),
                     <<Report("polar_external_question_result", call_id,
                              IF answer THEN 1 ELSE 0)>>,
                     accepted, FALSE, data))

EventExternalIsa(q, call_id, instance_id, class_tag, accepted) ==
    /\ AtEvent(q)
    /\ MoreEvents
    /\ Handled(q, Question(q, "ExternalIsa", call_id, {instance_id},
                           /\ instance_id \in DOMAIN id_to_instance
                           /\ isa(id_to_instance[instance_id], class_tag),
                           accepted,
                           [call_id |-> call_id, instance_id |-> instance_id,
                            class_tag |-> class_tag]))

EventExternalIsSubSpecializer(q, call_id, instance_id, left_class_tag, right_class_tag, accepted) ==
    /\ AtEvent(q)
    /\ MoreEvents
    /\ Handled(q, Question(q, "ExternalIsSubSpecializer", call_id, {instance_id},
                           /\ instance_id \in DOMAIN id_to_instance
                           /\ is_sub_specializer(id_to_instance[instance_id],
                                                 left_class_tag, right_class_tag),
                           accepted,
                           [call_id |-> call_id, instance_id |-> instance_id,
                            left_class_tag |-> left_class_tag,
                            right_class_tag |-> right_class_tag]))

\* left_instance == right_instance: identical objects are equal; the
\* classes of the model define no __eq__
EventExternalUnify(q, call_id, left_instance_id, right_instance_id, accepted) ==
    /\ AtEvent(q)
    /\ MoreEvents
    /\ Handled(q, Question(q, "ExternalUnify", call_id,
                           {left_instance_id, right_instance_id},
                           /\ left_instance_id \in DOMAIN id_to_instance
                           /\ right_instance_id \in DOMAIN id_to_instance
                           /\ id_to_instance[left_instance_id]
                                = id_to_instance[right_instance_id],
                           accepted,
                           [call_id |-> call_id,
                            left_instance_id |-> left_instance_id,
                            right_instance_id |-> right_instance_id]))

(***************************************************************************)
(* Debug, lines 511-521: the operator's line is encoded and sent back.     *)
(***************************************************************************)
\* r is the encoded command
Debugged(q, command, accepted, r) ==
    Outcome(r.h, calls, queries[q], AfterReport(accepted), FALSE,
            Did("Debug", q, AfterReport(accepted),
                <<Report("polar_debug_command", 0, r.term)>>,
                accepted, FALSE, [command |-> command]))

EventDebug(q, command, accepted) ==
    /\ AtEvent(q)
    /\ MoreEvents
    /\ Handled(q, Debugged(q, command, accepted,
                           to_polar(HStr(command),
                                    Bridge(id_to_instance, polar_next_id,
                                           next_oid, 0, 0))))

(***************************************************************************)
(* Result, lines 523-524: the bindings are decoded and yielded.            *)
(***************************************************************************)
\* the handles the engine may name in query q: those it holds for it
Handles(q) == IF q \in DOMAIN queries THEN queries[q].handles ELSE {}

\* the bindings the engine may send to query q
Bindings(q) ==
    {EmptyDict, [k \in {"x"} |-> TInteger(1)]}
        \cup {[k \in {"x"} |-> TExternalInstance(id)] : id \in Handles(q)}

\* line 564 with the result put first
PrependResult(results, res) == <<res>> \o results

\* line 564: results.append(res)
AppendResult(results, res) == Append(results, res)

\* what the consumer of the generator does with a result: query appends
\* it to its list, load_str sets success, query_str hands it to its caller
Taken(rec, res) ==
    IF rec.kind = "query"
    THEN [rec EXCEPT !.results = AppendResult(@, res)]
    ELSE IF rec.kind = "inline" THEN [rec EXCEPT !.results = <<"success">>]
    ELSE rec

\* r is the decoded bindings
Yielded(q, bindings, r) ==
    Outcome(r.h, calls,
            IF r.h.exc = NoExc THEN Taken(queries[q], r.fields) ELSE queries[q],
            r.h.exc, r.h.exc = NoExc,
            Did("Result", q, r.h.exc, <<>>, TRUE, r.h.exc = NoExc,
                [bindings |-> bindings, result |-> r.fields]))

EventResult(q, bindings, grants, ctors) ==
    /\ AtEvent(q)
    /\ MoreEvents
    /\ Handled(q, Yielded(q, bindings,
                          to_python_items(bindings, KeysOf(bindings),
                                          Bridge(id_to_instance, polar_next_id,
                                                 next_oid, grants, ctors))))

(***************************************************************************)
(* The bridge driven by a caller and an engine.                            *)
(***************************************************************************)
Init == InitBridge /\ IdleQueries /\ IdleCodec /\ IdleRaised

Next ==
    \/ \E from_polar \in {"from_polar"} : register_python_class("A", from_polar)
    \/ \E args \in QueryArgs, grants \in {0, 2}, made \in BOOLEAN :
         query(args, grants, made)
    \/ query_str
    \/ \E q \in DOMAIN queries, made \in BOOLEAN : start_query_str(q, made)
    \/ \E q \in DOMAIN queries : resume_query_str(q)
    \/ \E loaded \in BOOLEAN : load_str(loaded)
    \/ \E answer \in {"fail", "done", "query"} : polar_load(answer)
    \/ clear
    \/ EventNull(active)
    \/ EventDone(active)
    \/ \E class_tag \in {"Http", "A"}, fields \in MakeFields, ctors \in 0..2,
          grants \in 0..1 :
         EventMakeExternal(active, class_tag, fields, ctors, grants)
    \/ \E call_id \in CallIds, instance_id \in Handles(active),
          member \in Members, args \in CallArgs, grants \in 0..1,
          accepted \in BOOLEAN :
         EventExternalCall(active, call_id, instance_id, member, args, grants,
                           0, accepted)
    \/ \E call_id \in CallIds, grants \in 0..1, accepted \in BOOLEAN :
         EventExternalCallAgain(active, call_id, grants, accepted)
    \/ \E call_id \in CallIds, instance_id \in Handles(active),
          class_tag \in {"A", "B"}, accepted \in BOOLEAN :
         EventExternalIsa(active, call_id, instance_id, class_tag, accepted)
    \/ \E call_id \in CallIds, instance_id \in Handles(active),
          left_class_tag \in {"A", "B"}, right_class_tag \in {"A"},
          accepted \in BOOLEAN :
         EventExternalIsSubSpecializer(active, call_id, instance_id,
                                       left_class_tag, right_class_tag, accepted)
    \/ \E call_id \in CallIds, left_instance_id \in Handles(active),
          right_instance_id \in Handles(active), accepted \in BOOLEAN :
         EventExternalUnify(active, call_id, left_instance_id,
                            right_instance_id, accepted)
    \/ \E command \in {"c"}, accepted \in BOOLEAN :
         EventDebug(active, command, accepted)
    \/ \E bindings \in Bindings(active) : EventResult(active, bindings, 0, 0)

Spec == Init /\ [][Next]_vars

(***************************************************************************)
(* Properties of the bridge under Spec.                                    *)
(***************************************************************************)
\* the operations that begin a top-level query or a load
Begins == {"query", "start_query_str", "load_str"}

\* the events a loop iteration handles
LoopEvents ==
    {"NULL", "Done", "MakeExternal", "ExternalCall", "ExternalIsa",
     "ExternalIsSubSpecializer", "ExternalUnify", "Debug", "Result"}

\* the encoding of a primitive, which needs no handle
Primitive(v) == to_polar(v, Bridge(EmptyDict, FirstId, 1, 0, 0)).term

\* C1: identity stability: the Instance Registry never binds two distinct
\* handles to the same host object, so encoding an object a second time
\* allocates no new handle.
IdentityStability ==
    \A a, b \in DOMAIN id_to_instance :
        a # b => id_to_instance[a] # id_to_instance[b]

\* C2: call laziness: the events of one call_id in one query, for a member
\* whose source produces s, report the encoded elements of s in order, then
\* "no value" for ever, and only the first of them looks the member up.
CallLaziness ==
    (/\ last.event = "ExternalCall"
     /\ last.reported # <<>>
     /\ last.data.member[1] = "returns"
     /\ TypeOf(last.data.member[2]) = "iterable")
    => /\ last.reported[1].payload =
            IF last.data.pulls < Len(PayloadOf(last.data.member[2]))
            THEN Primitive(PayloadOf(last.data.member[2])[last.data.pulls + 1])
            ELSE NULL
       /\ last.data.lookup => last.data.pulls = 0

\* C3: call state does not leak across queries: the Call State Table is
\* empty when a top-level query or a load begins, and the first
\* ExternalCall of a call_id in a query looks the member up afresh.
CallStateCleared ==
    /\ last.event \in Begins => calls = EmptyDict
    /\ (last.event = "ExternalCall" /\ last.data.pulls = 0) => last.data.lookup

\* C4: Instance Registry lifetime: when a top-level query or a load begins,
\* no handle bound earlier is still bound: the registry holds only what the
\* beginning operation itself bound.
RegistryCleared ==
    last.event \in Begins => DOMAIN id_to_instance \subseteq last.bound

\* C5: result normalisation: a member whose value is None gives an empty
\* sequence, so its first event reports "no value" and allocates no
\* handle; a primitive result gives exactly one value.
ResultNormalisation ==
    (/\ last.event = "ExternalCall"
     /\ last.data.lookup
     /\ last.data.out = "pulled")
    => /\ last.data.member[2] = HNone =>
            /\ last.reported =
                 <<Report("polar_external_call_result", last.data.call_id, NULL)>>
            /\ last.data.issued = 0
       /\ last.data.member[2] = HInt(1) =>
            /\ last.reported =
                 <<Report("polar_external_call_result", last.data.call_id,
                          TInteger(1))>>
            /\ calls[last.data.call_id] = <<>>

\* C8, the states: a query whose native query was made is Running, Done
\* or Failed.
LoopStates ==
    \A q \in DOMAIN queries :
        queries[q].st # "Created" => queries[q].st \in {"Running", "Done", "Failed"}

\* C8, the steps: a query becomes Done exactly in the iteration that gets
\* the engine's Done; an iteration that gets NULL for an event, or whose
\* report the engine refuses, leaves it Failed; a Done or Failed query
\* runs no further iteration and its record does not change.
LoopSteps ==
    \A q \in DOMAIN queries :
        /\ (queries[q].st = "Running" /\ queries'[q].st = "Done")
             <=> (AtEvent(q) /\ last'.event = "Done" /\ last'.q = q)
        /\ (/\ AtEvent(q)
            /\ last'.q = q
            /\ last'.event \in LoopEvents
            /\ \/ last'.event = "NULL"
               \/ last'.reported # <<>> /\ ~last'.accepted)
             => queries'[q].st = "Failed"
        /\ queries[q].st \in {"Done", "Failed"}
             => /\ queries'[q] = queries[q]
                /\ active' # q
                /\ ~(last'.q = q /\ last'.event \in LoopEvents)

\* C8: the query loop is a state machine over {Running, Done, Failed} in
\* which Done is produced exactly by the engine's Done, Failed by every
\* failing request or report, and both are terminal.
QueryLoopStateMachine == []LoopStates /\ [][LoopSteps]_vars

\* a report the engine refused has left one query Failed after another
\* query had ended with Done
QueryLoopWitness ==
    /\ last.event \in {"ExternalCall", "ExternalIsa", "Debug"}
    /\ last.reported # <<>>
    /\ ~last.accepted
    /\ queries[last.q].st = "Failed"
    /\ \E p \in DOMAIN queries : queries[p].st = "Done"

\* C9: absent member: an ExternalCall naming an attribute the resolved
\* instance does not have reports "no value", raises nothing and leaves
\* the query Running.
AbsentMember ==
    (/\ last.event = "ExternalCall"
     /\ last.data.member[1] = "absent"
     /\ last.data.resolved
     /\ last.data.args = <<>>)
    => /\ last.reported =
            <<Report("polar_external_call_result", last.data.call_id, NULL)>>
       /\ last.accepted =>
            /\ last.exc = NoExc
            /\ queries[last.q].st = "Running"

\* C10: MakeExternal binding: a MakeExternal handled without error has
\* bound the instance it constructed under exactly the handle the engine
\* gave, under no other handle, and has drawn no handle from the engine
\* for it (only one for each instance literal among its fields).
MakeExternalBinding ==
    (last.event = "MakeExternal" /\ last.exc = NoExc)
    => /\ last.data.instance_id \in DOMAIN id_to_instance
       /\ id_to_instance[last.data.instance_id] = last.data.instance
       /\ \A id \in DOMAIN id_to_instance :
            id # last.data.instance_id
                => id_to_instance[id] # last.data.instance
       /\ last.data.class_tag \in DOMAIN CLASSES
       /\ ClassOf(last.data.instance) = CLASSES[last.data.class_tag]
       /\ last.data.issued = Cardinality(Literals(last.data.fields))

\* a MakeExternal whose fields hold an instance literal was handled
MakeExternalWitness ==
    /\ last.event = "MakeExternal"
    /\ last.exc = NoExc
    /\ Literals(last.data.fields) # {}
    /\ last.data.instance_id \in DOMAIN id_to_instance

(***************************************************************************)
(* The class questions on their own: classes A, B (of A) and C (of B) are  *)
(* registered in any order, an instance of one of them is the argument of  *)
(* a query, and the engine asks ExternalIsa and ExternalIsSubSpecializer   *)
(* about it, with registered and unregistered class tags.                  *)
(***************************************************************************)
Hierarchy == {"A", "B", "C"}

ClassTags == Hierarchy \cup {"Unregistered"}

NextClasses ==
    \/ \E cls \in Hierarchy : register_python_class(cls, "None")
    \/ \E cls \in Hierarchy : query(<<HObj(cls, 0)>>, 1, TRUE)
    \/ \E instance_id \in Handles(active), class_tag \in ClassTags,
          accepted \in BOOLEAN :
         EventExternalIsa(active, 1, instance_id, class_tag, accepted)
    \/ \E instance_id \in Handles(active), left_class_tag \in ClassTags,
          right_class_tag \in ClassTags, accepted \in BOOLEAN :
         EventExternalIsSubSpecializer(active, 1, instance_id, left_class_tag,
                                       right_class_tag, accepted)
    \/ EventDone(active)

SpecClasses == Init /\ [][NextClasses]_vars

\* cls comes strictly before other in the linearization mro
Before(mro, cls, other) ==
    \E i, j \in DOMAIN mro : i < j /\ mro[i] = cls /\ mro[j] = other

\* the one report of a question with the given answer
Answered(call_id, answer) ==
    <<Report("polar_external_question_result", call_id, IF answer THEN 1 ELSE 0)>>

\* C11: specialization ordering: ExternalIsSubSpecializer about a resolved
\* instance reports true iff both class names are registered and the left
\* class comes strictly before the right class in the linearization of the
\* instance's class; otherwise it reports false; it raises nothing of its
\* own.
SpecializationOrdering ==
    (/\ last.event = "ExternalIsSubSpecializer"
     /\ last.data.instance_id \in DOMAIN id_to_instance)
    => /\ last.reported =
            Answered(last.data.call_id,
                     /\ last.data.left_class_tag \in DOMAIN CLASSES
                     /\ last.data.right_class_tag \in DOMAIN CLASSES
                     /\ Before(Mro(ClassOf(id_to_instance[last.data.instance_id])),
                               last.data.left_class_tag,
                               last.data.right_class_tag))
       /\ last.accepted => last.exc = NoExc

\* an instance of C was asked about with A, B and C all registered
SpecializationWitness ==
    /\ last.event = "ExternalIsSubSpecializer"
    /\ last.data.instance_id \in DOMAIN id_to_instance
    /\ ClassOf(id_to_instance[last.data.instance_id]) = "C"
    /\ Hierarchy \subseteq DOMAIN CLASSES
    /\ last.data.left_class_tag = "C"
    /\ last.data.right_class_tag = "A"
    /\ last.reported = Answered(last.data.call_id, TRUE)

\* C12: ExternalIsa about a resolved instance reports true iff the class
\* tag is registered and the instance's class is that class or one of its
\* subclasses; for an unregistered tag it reports false and raises nothing.
IsaAnswer ==
    (/\ last.event = "ExternalIsa"
     /\ last.data.instance_id \in DOMAIN id_to_instance)
    => /\ last.reported =
            Answered(last.data.call_id,
                     /\ last.data.class_tag \in DOMAIN CLASSES
                     /\ \E i \in DOMAIN Mro(ClassOf(id_to_instance[last.data.instance_id])) :
                          Mro(ClassOf(id_to_instance[last.data.instance_id]))[i]
                              = last.data.class_tag)
       /\ last.accepted => last.exc = NoExc

\* an instance of the subclass C was asked about with the registered A
IsaWitness ==
    /\ last.event = "ExternalIsa"
    /\ last.data.instance_id \in DOMAIN id_to_instance
    /\ ClassOf(id_to_instance[last.data.instance_id]) = "C"
    /\ last.data.class_tag = "A"
    /\ "A" \in DOMAIN CLASSES
    /\ last.reported = Answered(last.data.call_id, TRUE)

(***************************************************************************)
(* The consumers of the loop on their own: query collects the results of   *)
(* its loop, load_str drains the loops of its inline queries; the engine   *)
(* sends Result events, Done, or fails.                                    *)
(***************************************************************************)
NextResults ==
    \/ \E args \in {<<>>} \cup {<<o>> : o \in HostObjects} : query(args, 1, TRUE)
    \/ \E loaded \in BOOLEAN : load_str(loaded)
    \/ \E answer \in {"fail", "done", "query"} : polar_load(answer)
    \/ \E bindings \in Bindings(active) : EventResult(active, bindings, 0, 0)
    \/ EventDone(active)
    \/ EventNull(active)

SpecResults == Init /\ [][NextResults]_vars

\* the steps of a load with inline queries
InlineSteps ==
    /\ \A q \in DOMAIN queries :
         (AtEvent(q) /\ queries[q].kind = "inline" /\ last'.event = "Done")
         => IF queries[q].results = <<>>
            THEN load' = "idle" /\ last'.data.raised # NoExc
            ELSE load' = "loading" /\ last'.data.raised = NoExc
    /\ (load = "inline" /\ load' = "loading")
         => /\ last'.event = "Done"
            /\ active \in DOMAIN queries
            /\ queries[active].results # <<>>
    /\ (/\ Len(queries') > Len(queries)
        /\ queries'[Len(queries')].kind = "inline")
         => load = "loading"
    /\ (load # "idle" /\ load' = "idle" /\ last'.exc = NoExc
            /\ last'.event # "Done")
         => load = "loading" /\ last'.event = "polar_load"

\* C13: inline queries during load: the load goes on after an inline query
\* only if that query yielded a Result before Done; an inline query that
\* ends with no Result aborts the load with an error; an inline query is
\* evaluated only in a load that has not been aborted, and load_str
\* returns only from such a load.
InlineQueries == [][InlineSteps]_vars

\* a load was aborted by its second inline query, which yielded nothing
InlineWitness ==
    /\ last.event = "Done"
    /\ last.q = 2
    /\ queries[1].kind = "inline"
    /\ queries[2].kind = "inline"
    /\ queries[1].st = "Done"
    /\ last.data.raised # NoExc
    /\ load = "idle"

\* what the bindings of a Result decode to: an Integer to its int, an
\* ExternalInstance to the instance bound under its handle
Expected(bindings) ==
    [k \in DOMAIN bindings |->
        IF TagOf(bindings[k]) = "Integer" THEN HInt(ValueOf(bindings[k]))
        ELSE id_to_instance[ValueOf(bindings[k])]]

\* the steps of the loop of a query made by query
ResultSteps ==
    \A q \in DOMAIN queries :
        (AtEvent(q) /\ queries[q].kind = "query")
        => /\ (last'.event = "Result" /\ last'.exc = NoExc)
                => /\ queries'[q].results =
                        Append(queries[q].results, Expected(last'.data.bindings))
                   /\ queries'[q].st = "Running"
                   /\ active' = q
           /\ (last'.event # "Result" /\ queries'[q].st = "Running")
                => queries'[q].results = queries[q].results
           /\ last'.event = "Done"
                => /\ last'.data.returned.results = queries[q].results
                   /\ last'.data.returned.success = (queries[q].results # <<>>)

HandlesResolvable ==
    \A q \in DOMAIN queries :
        queries[q].st = "Running" => queries[q].handles \subseteq DOMAIN id_to_instance

(***************************************************************************)
(* The class registry seen through several Polar objects.                  *)
(***************************************************************************)
\* the Polar objects one run constructs
MaxPolars == 3

\* the dict a name held by a Polar object refers to
Deref(ref) == IF ref = "CLASSES" THEN CLASSES ELSE CLASS_CONSTRUCTORS

\* self.classes and self.class_constructors as Polar object p reads them
View(p) ==
    [classes |-> Deref(polars[p].classes),
     class_constructors |-> Deref(polars[p].class_constructors)]

\* what a registration leaves behind: its arguments and the registry it
\* found
DidRegister(via, cls, from_polar) ==
    [event |-> "registered", q |-> 0, via |-> via, cls |-> cls,
     from_polar |-> from_polar, before |-> Registry]

\* lines 105-116: Polar(); the new object names the module dicts
Polar__init__ ==
    /\ Len(polars) < MaxPolars
    /\ polars' = Append(polars, NewPolar)
    /\ last' = [event |-> "Polar", q |-> 0]
    /\ UNCHANGED <<polar_next_id, id_to_instance, calls, CLASSES,
                   CLASS_CONSTRUCTORS, next_oid, queries, active, load,
                   events, rt, raised>>

\* lines 215-222 called on Polar object p
Polar_register_python_class(p, cls, from_polar) ==
    /\ p \in DOMAIN polars
    /\ CLASSES' = Registered(View(p), cls, from_polar).classes
    /\ CLASS_CONSTRUCTORS' =
           Registered(View(p), cls, from_polar).class_constructors
    /\ last' = DidRegister(p, cls, from_polar)
    /\ UNCHANGED <<polar_next_id, id_to_instance, calls, next_oid, queries,
                   active, load, events, rt, raised, polars>>

\* lines 85-86: the module function registers through a Polar object it
\* constructs and drops
module_register_python_class(cls, from_polar) ==
    /\ CLASSES' = Registered(Registry, cls, from_polar).classes
    /\ CLASS_CONSTRUCTORS' =
           Registered(Registry, cls, from_polar).class_constructors
    /\ last' = DidRegister(0, cls, from_polar)
    /\ UNCHANGED <<polar_next_id, id_to_instance, calls, next_oid, queries,
                   active, load, events, rt, raised, polars>>

RegisteredClasses == {"A", "A.v2", "B"}
FromPolar == {"None", "from_polar", "make"}

NextRegistry ==
    \/ Polar__init__
    \/ \E p \in DOMAIN polars, cls \in RegisteredClasses,
          from_polar \in FromPolar :
         Polar_register_python_class(p, cls, from_polar)
    \/ \E cls \in RegisteredClasses, from_polar \in FromPolar :
         module_register_python_class(cls, from_polar)

SpecRegistry == Init /\ [][NextRegistry]_vars

\* the entries of dict d other than the one under name n
Others(d, n) == [m \in DOMAIN d \ {n} |-> d[m]]

\* C16: a registration stores the class and the constructor under the
\* class's name and leaves every other entry alone, so that the same
\* registration made again changes nothing and a different one under the
\* same name replaces both entries; every Polar object, whenever it was
\* constructed, reads the registry every registration wrote; and the two
\* dicts always have the same names, which is what the assertion of
\* make_external_instance needs.
ClassRegistry ==
    /\ DOMAIN CLASSES = DOMAIN CLASS_CONSTRUCTORS
    /\ \A p \in DOMAIN polars : View(p) = Registry
    /\ last.event = "registered" =>
         /\ \A p \in DOMAIN polars :
               /\ ClassName(last.cls) \in DOMAIN View(p).classes
               /\ View(p).classes[ClassName(last.cls)] = last.cls
               /\ View(p).class_constructors[ClassName(last.cls)]
                     = last.from_polar
         /\ Others(CLASSES, ClassName(last.cls))
               = Others(last.before.classes, ClassName(last.cls))
         /\ Others(CLASS_CONSTRUCTORS, ClassName(last.cls))
               = Others(last.before.class_constructors, ClassName(last.cls))
         /\ Registered(Registry, last.cls, last.from_polar) = Registry
         /\ Registered(last.before, last.cls, last.from_polar) = Registry
         /\ (/\ ClassName(last.cls) \in DOMAIN last.before.classes
             /\ last.before.classes[ClassName(last.cls)] = last.cls
             /\ last.before.class_constructors[ClassName(last.cls)]
                   = last.from_polar)
            => Registry = last.before

\* a registration through the second Polar object replaced the class and
\* the constructor registered under the name A, and a third Polar object
\* constructed before it reads the new entries
ClassRegistryWitness ==
    /\ last.event = "registered"
    /\ last.via = 2
    /\ Len(polars) = 3
    /\ last.cls = "A.v2"
    /\ last.from_polar = "make"
    /\ "A" \in DOMAIN last.before.classes
    /\ last.before.classes["A"] = "A"
    /\ last.before.class_constructors["A"] = "None"
    /\ View(3).classes["A"] = "A.v2"
    /\ View(1).class_constructors["A"] = "make"

(***************************************************************************)
(* Reports pushed per event.                                               *)
(***************************************************************************)
Suspensions ==
    {"ExternalCall", "ExternalIsa", "ExternalIsSubSpecializer",
     "ExternalUnify", "Debug"}

\* the lib function that answers each suspension event
ReportFn(event) ==
    IF event = "ExternalCall" THEN "polar_external_call_result"
    ELSE IF event = "Debug" THEN "polar_debug_command"
    ELSE "polar_external_question_result"

\* C17: an iteration that handled a suspension event and goes on to request
\* the next event has pushed exactly one report, through the lib function
\* of that event, with the event's call_id (a Debug event has none) and
\* the engine has accepted it; no iteration pushes two reports; an
\* iteration that pushed none, or whose report was refused, has ended the
\* query; MakeExternal and Result push nothing.
StrictAlternation ==
    /\ last.event \in Suspensions =>
         /\ Len(last.reported) <= 1
         /\ queries[last.q].st \in {"Running", "Failed"}
         /\ queries[last.q].st = "Running" <=>
               (Len(last.reported) = 1 /\ last.accepted)
         /\ last.reported # <<>> =>
               /\ last.reported[1].fn = ReportFn(last.event)
               /\ last.event # "Debug" =>
                     last.reported[1].call_id = last.data.call_id
    /\ last.event \in {"MakeExternal", "Result"} => last.reported = <<>>

\* the member an ExternalCall named is absent: the loop has reported NULL
\* under the event's call_id and the query is still Running
StrictAlternationWitness ==
    /\ last.event = "ExternalCall"
    /\ last.data.out = "absent"
    /\ last.reported
         = <<Report("polar_external_call_result", last.data.call_id, NULL)>>
    /\ last.accepted
    /\ queries[last.q].st = "Running"

(***************************************************************************)
(* What an encode leaves behind.                                           *)
(***************************************************************************)
RECURSIVE OnlyPrimitives(_)
\* an int, a float, a bool, a str, or a list or dict of such values
OnlyPrimitives(v) ==
    IF TypeOf(v) \in {"int", "float", "bool", "str"} THEN TRUE
    ELSE IF TypeOf(v) = "list"
    THEN \A i \in DOMAIN PayloadOf(v) : OnlyPrimitives(PayloadOf(v)[i])
    ELSE IF TypeOf(v) = "dict"
    THEN \A k \in DOMAIN PayloadOf(v) : OnlyPrimitives(PayloadOf(v)[k])
    ELSE FALSE

\* the term tag that belongs to a primitive host type
OwnTag(v) ==
    IF TypeOf(v) = "int" THEN "Integer"
    ELSE IF TypeOf(v) = "float" THEN "Float"
    ELSE IF TypeOf(v) = "bool" THEN "Boolean"
    ELSE IF TypeOf(v) = "str" THEN "String"
    ELSE IF TypeOf(v) = "list" THEN "List"
    ELSE "Dictionary"

\* an encode of the value under test has returned
EncodeReturns == rt.phase = "input" /\ rt'.phase = "encoded"

\* C18: an encode of a value that holds only primitives returns a term of
\* the value's own tag, binds nothing in the registry and takes no handle
\* from the engine.
EncodeFrame ==
    [][(EncodeReturns /\ OnlyPrimitives(rt.v)) =>
          /\ TagOf(rt'.term) = OwnTag(rt.v)
          /\ id_to_instance' = id_to_instance
          /\ polar_next_id' = polar_next_id]_vars

(***************************************************************************)
(* Events whose terms cannot all be decoded.                               *)
(***************************************************************************)
\* the arguments of an ExternalCall: none, a bound one, an unbound
\* variable, an instance literal followed by an unbound variable
DecodeArgs ==
    {<<>>, <<TInteger(1)>>, <<TSymbol("y")>>,
     <<TInstanceLiteral("Http", EmptyDict), TSymbol("y")>>}

\* the bindings of a Result, in the same four shapes
DecodeBindings ==
    {EmptyDict, [k \in {"x"} |-> TInteger(1)], [k \in {"x"} |-> TSymbol("y")],
     [k \in {"x", "y"} |->
         IF k = "x" THEN TInstanceLiteral("Http", EmptyDict) ELSE TSymbol("y")]}

\* the engine grants the handle and the constructor succeeds whenever an
\* instance literal is decoded
NextDecode ==
    \/ \E o \in HostObjects : query(<<o>>, 1, TRUE)
    \/ \E call_id \in CallIds, instance_id \in Handles(active),
          member \in {<<"absent">>, <<"returns", HInt(1)>>},
          args \in DecodeArgs, accepted \in BOOLEAN :
         EventExternalCall(active, call_id, instance_id, member, args, 1, 1,
                           accepted)
    \/ \E bindings \in DecodeBindings : EventResult(active, bindings, 1, 1)
    \/ EventDone(active)

SpecDecode == Init /\ [][NextDecode]_vars

RECURSIVE ContainsSymbol(_)
\* a Symbol term, or a List, Dictionary or Call with one inside
ContainsSymbol(v) ==
    IF TagOf(v) = "Symbol" THEN TRUE
    ELSE IF TagOf(v) \in {"List", "Dictionary"}
    THEN \E i \in DOMAIN ValueOf(v) : ContainsSymbol(ValueOf(v)[i])
    ELSE IF TagOf(v) = "Call"
    THEN \E i \in DOMAIN ValueOf(v)[2] : ContainsSymbol(ValueOf(v)[2][i])
    ELSE FALSE

\* the iteration just run got a Result or an ExternalCall with an unbound
\* variable among its bindings or arguments
UndecodableEvent ==
    \/ /\ last'.event = "Result"
       /\ \E k \in DOMAIN last'.data.bindings :
             ContainsSymbol(last'.data.bindings[k])
    \/ /\ last'.event = "ExternalCall"
       /\ \E i \in DOMAIN last'.data.args : ContainsSymbol(last'.data.args[i])

\* C19: an iteration whose Result bindings or ExternalCall arguments hold
\* an unbound variable ends the query in failure with the unbound-variable
\* error, yields nothing, reports nothing, and leaves the instance registry
\* and the call table as they were before the event.
DecodeFailureAborts ==
    [][UndecodableEvent =>
          /\ last'.exc = "PolarRuntimeException: unbound variable"
          /\ queries'[last'.q].st = "Failed"
          /\ ~last'.yielded
          /\ last'.reported = <<>>
          /\ id_to_instance' = id_to_instance
          /\ calls' = calls]_vars

(***************************************************************************)
(* The assertion of the MakeExternal branch.                               *)
(***************************************************************************)
\* C20: whenever the loop handles a MakeExternal event, the handle the
\* engine sends is not bound in the instance registry, the engine giving
\* out each handle once between two calls of clear.
MakeExternalFresh == last.event = "MakeExternal" => last.data.fresh

(***************************************************************************)
(* The release of native query handles.                                    *)
(***************************************************************************)
\* the generator of a query_str, suspended at the yield of line 524, is
\* closed or dropped by its caller: GeneratorExit leaves the with statement
\* of line 367
close_query_str(q) ==
    /\ active = 0
    /\ load = "idle"
    /\ q \in DOMAIN queries
    /\ queries[q].kind = "query_str"
    /\ queries[q].st = "Running"
    /\ queries' = [queries EXCEPT
                      ![q] = Finished(CleanupQuery__exit__(queries[q]), "Closed")]
    /\ last' = [event |-> "close", q |-> q]
    /\ UNCHANGED <<polar_next_id, id_to_instance, calls, CLASSES,
                   CLASS_CONSTRUCTORS, next_oid, active, load, events, rt,
                   raised, polars>>

NextRelease ==
    \/ \E made \in BOOLEAN : query(<<>>, 0, made)
    \/ query_str
    \/ \E q \in DOMAIN queries, made \in BOOLEAN : start_query_str(q, made)
    \/ \E q \in DOMAIN queries : resume_query_str(q)
    \/ \E q \in DOMAIN queries : close_query_str(q)
    \/ \E loaded \in BOOLEAN : load_str(loaded)
    \/ \E answer \in {"fail", "done", "query"} : polar_load(answer)
    \/ EventNull(active)
    \/ EventDone(active)
    \/ \E fields \in MakeFields, ctors \in 0..1 :
         EventMakeExternal(active, "Http", fields, ctors, 1)
    \/ \E member \in {<<"raises">>, <<"returns", HInt(1)>>},
          args \in CallArgs, accepted \in BOOLEAN :
         EventExternalCall(active, 1, 1, member, args, 0, 0, accepted)
    \/ \E bindings \in DecodeBindings : EventResult(active, bindings, 1, 1)

SpecRelease == Init /\ [][NextRelease]_vars

Ended == {"Done", "Failed", "Closed"}

\* no handle is freed twice, and none while its loop can still run
ReleaseStates ==
    \A q \in DOMAIN queries :
        /\ queries[q].freed <= 1
        /\ queries[q].st \in {"Created", "Running"} => queries[q].freed = 0

\* a handle is freed in the step that ends its loop, and in no other
ReleaseSteps ==
    \A q \in DOMAIN queries :
        /\ (queries[q].st = "Running" /\ queries'[q].st \in Ended)
             => queries'[q].freed = queries[q].freed + 1
        /\ ~(queries[q].st = "Running" /\ queries'[q].st \in Ended)
             => queries'[q].freed = queries[q].freed

\* C21: the native handle of a query is freed once, in the step in which
\* its loop ends, whether by Done, by an engine call that fails, by an
\* error raised while an event is handled, or by the close of a suspended
\* generator; it is not freed while the loop is Running nor a second time.
QueryHandleRelease == []ReleaseStates /\ [][ReleaseSteps]_vars

\* a host method has raised in one query and the engine has sent Done in
\* another: each handle has been freed once
QueryHandleReleaseWitness ==
    /\ Len(queries) = 2
    /\ queries[1].st = "Done"
    /\ queries[1].freed = 1
    /\ last.event = "ExternalCall"
    /\ last.q = 2
    /\ last.exc = "HostError"
    /\ queries[2].st = "Failed"
    /\ queries[2].freed = 1

====
